---- MODULE Spec2Model ----
(***************************************************************************)
(* BLE contact tracer (ESP32 firmware + UDP collector).                    *)
(*                                                                         *)
(* The module models                                                       *)
(*   - the persistent (RTC memory) peer table and the exposure evaluation  *)
(*     of group3-wiot-final.ino,                                           *)
(*   - the scanner's per-device handler recordDeviceContact,               *)
(*   - the SPIFFS log of storeData / readData,                             *)
(*   - the wake cycle of setup(),                                          *)
(*   - the UDP upload with acknowledgement and retry of WifiDataSender,    *)
(*   - the datagram channel and the Node.js collector.                     *)
(*                                                                         *)
(* Array indices are 0-based as in the C++ source; findTrackedDevice       *)
(* returns -1 when the address is not in the table.                        *)
(***************************************************************************)
EXTENDS Integers, Sequences, FiniteSets, TLC

(***************************************************************************)
(* Program constants                                                       *)
(***************************************************************************)
MAX_TRACKED_DEVICES == 10

CLOSE_CONTACT_RSSI == -60

EXPOSURE_DURATION_THRESHOLD == 300

RSSI_THRESHOLD == -100

RETRY_COUNTER == 3

ACK_TIMEOUT == 5000

UPLOAD_PERIOD == 5

SCAN_TIME == 15

DEEP_SLEEP_TIME == 10

\* the header line of the log (a line of the log is a record: the header has
\* the one field text, an observation has the eight fields of the CSV row)
HEADER == [text |-> "timeStamp,peerId,rssi,deviceId,uploadDuration,contactDuration,closeContactDuration,exposureStatus"]

\* a datagram payload is the sequence of its bytes
ACK == <<"A", "C", "K">>

(***************************************************************************)
(* Bounds of the model                                                     *)
(***************************************************************************)
\* width of unsigned long in the model (32 on the target)
UlongBits == 16

ULONG_MOD == 2 ^ UlongBits

\* number of peers of the evaluation specification
NumEvalPeers == 2

\* number of observations of the evaluation specification
MaxObs == 3

\* number of peers of the capacity specification (one more than the table holds)
NumCapPeers == 11

\* observations the capacity specification makes once the table is full
MaxCapObs == 2

\* timestamp of the observations that fill the table, and of those made once it is full
CapFillTime == 1000

CapLateTime == 1400

\* wake cycles of the device specification
MaxCycles == 11

\* observations over a whole run of the device specification
MaxRecords == 2

\* real time (seconds) at power-on
ClockStart == 1000

\* milliseconds between the last transmission and the accepted acknowledgement
AckLatency == 20

\* iterations of waitForAcknowledgment's loop that fit into ACK_TIMEOUT
WaitIterations == 2

EvalPeers == 1 .. NumEvalPeers

CapPeers == 1 .. NumCapPeers

\* timestamps offered to the evaluator (the times of the reference scenario)
EvalTimes == {0, 200, 350, 400, 460, 500, 560}

\* one close and one far signal strength
RssiValues == {-55, -80}

\* an entry of trackedDevices that holds no address (zero-initialised RTC memory)
NoDevice == 0

VARIABLES
    bootCount,               \* RTC: wake cycles since power-on
    lastUploadDuration,      \* RTC: ms of the last successful upload
    trackedDevices,          \* RTC: addresses
    firstSeenTimes,          \* RTC
    closeContactDurations,   \* RTC
    lastCloseContactTimes,   \* RTC
    trackedDeviceCount,      \* RTC
    mounted,                 \* SPIFFS is mounted in this wake cycle
    dataFile,                \* lines of /data.csv, <<>> when the file is missing
    pc,                      \* position of setup()
    wifi,                    \* WiFi.status() == WL_CONNECTED
    unixTime,                \* value getUnixTime returned in this cycle
    clock,                   \* real time in seconds (environment)
    payload,                 \* argument of uploadData
    retryCounter,            \* WifiDataSender::_retryCounter
    uploadResult,            \* "none", "ok", "failed"
    netData,                 \* datagrams in flight to the collector
    netAck,                  \* replies in flight to the device
    received,                \* datagrams the collector got
    obsHist,                 \* history: per peer, the observations processed
    lastEval,                \* history: what the last recordDeviceContact computed
    everExposed,             \* history: peers for which isExposureEvent returned true
    sent,                    \* history: payloads transmitted by the current uploadData
    lastReply,               \* history: the datagram the current wait read last
    uploadStart,             \* history: log and lastUploadDuration when uploadData was called
    clearedLog,              \* history: log content removed by the last format after an upload
    cycles,                  \* history: wake cycles run
    nRecords,                \* history: observations processed
    logged,                  \* history: lines handed to storeData since the log was last cleared
    lastData,                \* history: per peer, the line recordDeviceContact built last
    waited,                  \* iterations of waitForAcknowledgment's loop in the current wait
    lastFailed,              \* history: the log and the cycle of the last failed upload
    appended,                \* collector: datagrams whose fs.appendFile has ended (ok / err)
    senders                  \* the two _sendDataWithConfirmation run on the same channel events

tableVars == <<trackedDevices, firstSeenTimes, closeContactDurations,
               lastCloseContactTimes, trackedDeviceCount>>

rtcVars == <<bootCount, lastUploadDuration>>

fsVars == <<mounted, dataFile>>

cycleVars == <<pc, wifi, unixTime, clock, cycles>>

uploadVars == <<payload, retryCounter, uploadResult, sent, lastReply, uploadStart,
               clearedLog, waited, lastFailed>>

netVars == <<netData, netAck, received, appended, senders>>

obsVars == <<obsHist, lastEval, everExposed, nRecords, logged, lastData>>

vars == <<bootCount, lastUploadDuration, trackedDevices, firstSeenTimes,
          closeContactDurations, lastCloseContactTimes, trackedDeviceCount,
          mounted, dataFile, pc, wifi, unixTime, clock, payload, retryCounter,
          uploadResult, netData, netAck, received, obsHist, lastEval,
          everExposed, sent, lastReply, uploadStart, clearedLog, cycles,
          nRecords, logged, lastData, waited, lastFailed, appended,
          senders>>

(***************************************************************************)
(* unsigned long arithmetic                                                *)
(***************************************************************************)
AddU(a, b) == (a + b) % ULONG_MOD

SubU(a, b) == (a - b + ULONG_MOD) % ULONG_MOD

(***************************************************************************)
(* The peer table, as one value, so that the helpers compose               *)
(***************************************************************************)
Indices == 0 .. (MAX_TRACKED_DEVICES - 1)

Table == [dev |-> trackedDevices, first |-> firstSeenTimes,
          dur |-> closeContactDurations, last |-> lastCloseContactTimes,
          count |-> trackedDeviceCount]

EmptyTable == [dev |-> [i \in Indices |-> NoDevice], first |-> [i \in Indices |-> 0],
               dur |-> [i \in Indices |-> 0], last |-> [i \in Indices |-> 0],
               count |-> 0]

findTrackedDevice(T, deviceAddress) ==
    LET hits == {i \in 0 .. (T.count - 1) : T.dev[i] = deviceAddress}
    IN  IF hits = {} THEN -1
        ELSE CHOOSE i \in hits : \A j \in hits : i <= j

getFirstSeenTime(T, deviceAddress) ==
    LET index == findTrackedDevice(T, deviceAddress)
    IN  IF index >= 0 THEN T.first[index] ELSE 0

addOrUpdateTrackedDevice_refresh(T, deviceAddress, currentTime) ==
    LET index == findTrackedDevice(T, deviceAddress)
    IN  IF index >= 0 THEN [T EXCEPT !.first[index] = currentTime]
        ELSE IF T.count < MAX_TRACKED_DEVICES
             THEN [dev   |-> [T.dev   EXCEPT ![T.count] = deviceAddress],
                   first |-> [T.first EXCEPT ![T.count] = currentTime],
                   dur   |-> [T.dur   EXCEPT ![T.count] = 0],
                   last  |-> [T.last  EXCEPT ![T.count] = 0],
                   count |-> T.count + 1]
             ELSE T

addOrUpdateTrackedDevice_evict(T, deviceAddress, currentTime) ==
    LET index == findTrackedDevice(T, deviceAddress)
        slot  == IF T.count < MAX_TRACKED_DEVICES THEN T.count ELSE 0
    IN  IF index >= 0 THEN T
        ELSE [dev   |-> [T.dev   EXCEPT ![slot] = deviceAddress],
              first |-> [T.first EXCEPT ![slot] = currentTime],
              dur   |-> [T.dur   EXCEPT ![slot] = 0],
              last  |-> [T.last  EXCEPT ![slot] = 0],
              count |-> IF T.count < MAX_TRACKED_DEVICES THEN T.count + 1 ELSE T.count]

addOrUpdateTrackedDevice_overwriteLast(T, deviceAddress, currentTime) ==
    LET index == findTrackedDevice(T, deviceAddress)
        slot  == IF T.count > 0 THEN T.count - 1 ELSE 0
    IN  IF index >= 0 THEN T
        ELSE [dev   |-> [T.dev   EXCEPT ![slot] = deviceAddress],
              first |-> [T.first EXCEPT ![slot] = currentTime],
              dur   |-> [T.dur   EXCEPT ![slot] = 0],
              last  |-> [T.last  EXCEPT ![slot] = 0],
              count |-> slot + 1]

addOrUpdateTrackedDevice(T, deviceAddress, currentTime) ==
    LET index == findTrackedDevice(T, deviceAddress)
    IN  IF index >= 0 THEN T
        ELSE IF T.count < MAX_TRACKED_DEVICES
             THEN [dev   |-> [T.dev   EXCEPT ![T.count] = deviceAddress],
                   first |-> [T.first EXCEPT ![T.count] = currentTime],
                   dur   |-> [T.dur   EXCEPT ![T.count] = 0],
                   last  |-> [T.last  EXCEPT ![T.count] = 0],
                   count |-> T.count + 1]
             ELSE T

getCloseContactDuration(T, deviceAddress) ==
    LET index == findTrackedDevice(T, deviceAddress)
    IN  IF index >= 0 THEN T.dur[index] ELSE 0

updateCloseContactTransition_wasAlways(T, deviceAddress, currentTime, rssi) ==
    LET index == findTrackedDevice(T, deviceAddress)
    IN  IF index < 0 THEN T
        ELSE LET isCloseContact    == rssi >= CLOSE_CONTACT_RSSI
                 wasInCloseContact == T.last[index] >= 0
             IN  IF isCloseContact /\ ~wasInCloseContact
                 THEN [T EXCEPT !.last[index] = currentTime]
                 ELSE IF ~isCloseContact /\ wasInCloseContact
                      THEN LET contactDuration == SubU(currentTime, T.last[index])
                           IN  [T EXCEPT !.dur[index]  = AddU(T.dur[index], contactDuration),
                                         !.last[index] = 0]
                      ELSE T

\* updateCloseContact of the consolidated sketch: the two transitions, into
\* close contact and out of it, change the table
updateCloseContactTransition(T, deviceAddress, currentTime, rssi) ==
    LET index == findTrackedDevice(T, deviceAddress)
    IN  IF index < 0 THEN T
        ELSE LET isCloseContact    == rssi >= CLOSE_CONTACT_RSSI
                 wasInCloseContact == T.last[index] > 0
             IN  IF isCloseContact /\ ~wasInCloseContact
                 THEN [T EXCEPT !.last[index] = currentTime]
                 ELSE IF ~isCloseContact /\ wasInCloseContact
                      THEN LET contactDuration == SubU(currentTime, T.last[index])
                           IN  [T EXCEPT !.dur[index]  = AddU(T.dur[index], contactDuration),
                                         !.last[index] = 0]
                      ELSE T

updateCloseContact_anyRssi(T, deviceAddress, currentTime, rssi) ==
    LET index == findTrackedDevice(T, deviceAddress)
    IN  IF index < 0 THEN T
        ELSE IF rssi >= RSSI_THRESHOLD
             THEN IF T.last[index] = 0
                  THEN [T EXCEPT !.last[index] = currentTime]
                  ELSE T
             ELSE IF T.last[index] > 0
                  THEN LET contactPeriod == SubU(currentTime, T.last[index])
                       IN  [T EXCEPT !.dur[index]  = AddU(T.dur[index], contactPeriod),
                                     !.last[index] = 0]
                  ELSE T

updateCloseContact_restamp(T, deviceAddress, currentTime, rssi) ==
    LET index == findTrackedDevice(T, deviceAddress)
    IN  IF index < 0 THEN T
        ELSE IF rssi >= CLOSE_CONTACT_RSSI
             THEN IF T.last[index] = 0
                  THEN [T EXCEPT !.last[index] = currentTime]
                  ELSE [T EXCEPT !.last[index] = currentTime]
             ELSE IF T.last[index] > 0
                  THEN LET contactPeriod == SubU(currentTime, T.last[index])
                       IN  [T EXCEPT !.dur[index]  = AddU(T.dur[index], contactPeriod),
                                     !.last[index] = 0]
                  ELSE T

updateCloseContact(T, deviceAddress, currentTime, rssi) ==
    LET index == findTrackedDevice(T, deviceAddress)
    IN  IF index < 0 THEN T
        ELSE IF rssi >= CLOSE_CONTACT_RSSI
             THEN IF T.last[index] = 0
                  THEN [T EXCEPT !.last[index] = currentTime]
                  ELSE T
             ELSE IF T.last[index] > 0
                  THEN LET contactPeriod == SubU(currentTime, T.last[index])
                       IN  [T EXCEPT !.dur[index]  = AddU(T.dur[index], contactPeriod),
                                     !.last[index] = 0]
                  ELSE T

isExposureEvent(T, deviceAddress, currentTime) ==
    LET index == findTrackedDevice(T, deviceAddress)
    IN  IF index < 0 THEN FALSE
        ELSE LET totalCloseContact ==
                    IF T.last[index] > 0
                    THEN AddU(T.dur[index], SubU(currentTime, T.last[index]))
                    ELSE T.dur[index]
             IN  totalCloseContact >= EXPOSURE_DURATION_THRESHOLD

(***************************************************************************)
(* The log file /data.csv                                                  *)
(***************************************************************************)
storeData_headerAlways(file, isMounted, data) ==
    IF ~isMounted THEN file
    ELSE file \o <<HEADER, data>>

storeData(file, isMounted, data) ==
    IF ~isMounted THEN file                       \* SPIFFS.open failed
    ELSE IF Len(file) = 0 THEN <<HEADER, data>>   \* file.size() == 0
    ELSE Append(file, data)

\* the record lines of a log content or of a payload content
Records(content) == SelectSeq(content, LAMBDA l : "text" \notin DOMAIN l)

readData(file, isMounted) ==
    IF ~isMounted \/ Len(file) = 0 THEN <<>>      \* !SPIFFS.exists(fileName)
    ELSE file

\* SPIFFS.format(): every file is gone
format(file) == <<>>

(***************************************************************************)
(* BluetoothScanner::recordDeviceContact                                   *)
(***************************************************************************)
DEVICE_ID == "ESP32_"

\* the close contact time including the ongoing session, as recordDeviceContact
\* computes it for the log
closeContactDurationNow(T, deviceAddress, currentTime) ==
    LET index == findTrackedDevice(T, deviceAddress)
    IN  IF index >= 0 /\ T.last[index] > 0
        THEN AddU(getCloseContactDuration(T, deviceAddress),
                  SubU(currentTime, T.last[index]))
        ELSE getCloseContactDuration(T, deviceAddress)

recordDeviceContact_firstSeenZero(T, deviceAddress, rssi, currentTime, uploadDuration) ==
    LET seen      == getFirstSeenTime(T, deviceAddress)
        T1        == IF seen = 0
                     THEN addOrUpdateTrackedDevice(T, deviceAddress, currentTime)
                     ELSE T
        firstSeen == getFirstSeenTime(T1, deviceAddress)
        T2        == updateCloseContact(T1, deviceAddress, currentTime, rssi)
        contactDuration == SubU(currentTime, firstSeen)
        closeContactDuration == closeContactDurationNow(T2, deviceAddress, currentTime)
        isExposure == isExposureEvent(T2, deviceAddress, currentTime)
    IN  [table |-> T2,
         isExposure |-> isExposure,
         data  |-> [timeStamp |-> currentTime, peerId |-> deviceAddress,
                    rssi |-> rssi, deviceId |-> DEVICE_ID,
                    uploadDuration |-> uploadDuration,
                    contactDuration |-> contactDuration,
                    closeContactDuration |-> closeContactDuration,
                    exposureStatus |-> IF isExposure THEN "EXPOSURE" ELSE "NORMAL"]]

recordDeviceContact(T, deviceAddress, rssi, currentTime, uploadDuration) ==
    LET seen      == getFirstSeenTime(T, deviceAddress)
        T1        == IF seen = 0
                     THEN addOrUpdateTrackedDevice(T, deviceAddress, currentTime)
                     ELSE T
        firstSeen == IF seen = 0 THEN currentTime ELSE seen
        T2        == updateCloseContact(T1, deviceAddress, currentTime, rssi)
        contactDuration == SubU(currentTime, firstSeen)
        closeContactDuration == closeContactDurationNow(T2, deviceAddress, currentTime)
        isExposure == isExposureEvent(T2, deviceAddress, currentTime)
    IN  [table |-> T2,
         isExposure |-> isExposure,
         data  |-> [timeStamp |-> currentTime, peerId |-> deviceAddress,
                    rssi |-> rssi, deviceId |-> DEVICE_ID,
                    uploadDuration |-> uploadDuration,
                    contactDuration |-> contactDuration,
                    closeContactDuration |-> closeContactDuration,
                    exposureStatus |-> IF isExposure THEN "EXPOSURE" ELSE "NORMAL"]]

NoEval == [peer |-> NoDevice]

\* no line was built for the peer yet
NoData == [contactDuration |-> 0, closeContactDuration |-> 0]

\* no datagram was read in the current wait
NoReply == [read |-> FALSE]

\* no upload has failed since the last successful one
NoFailure == [failed |-> FALSE]

\* _sendDataWithConfirmation has not been called
NotCalled == [called |-> FALSE]

\* no fs.appendFile of the collector has ended
NoAppend == [ok |-> {}, err |-> {}]

\* BluetoothScanner::_addDevice, the handler of the scanner that offers
\* performBLEScan: as recordDeviceContact, but the closeContactDuration of
\* the line is getCloseContactDuration alone
_addDevice(T, deviceAddress, rssi, currentTime, uploadDuration) ==
    LET seen      == getFirstSeenTime(T, deviceAddress)
        T1        == IF seen = 0
                     THEN addOrUpdateTrackedDevice(T, deviceAddress, currentTime)
                     ELSE T
        firstSeen == IF seen = 0 THEN currentTime ELSE seen
        T2        == updateCloseContact(T1, deviceAddress, currentTime, rssi)
        contactDuration == SubU(currentTime, firstSeen)
        closeContactDuration == getCloseContactDuration(T2, deviceAddress)
        isExposure == isExposureEvent(T2, deviceAddress, currentTime)
    IN  [table |-> T2,
         isExposure |-> isExposure,
         data  |-> [timeStamp |-> currentTime, peerId |-> deviceAddress,
                    rssi |-> rssi, deviceId |-> DEVICE_ID,
                    uploadDuration |-> uploadDuration,
                    contactDuration |-> contactDuration,
                    closeContactDuration |-> closeContactDuration,
                    exposureStatus |-> IF isExposure THEN "EXPOSURE" ELSE "NORMAL"]]

handleDevice_skipsUntracked(r, deviceAddress, rssi, currentTime) ==
             /\ trackedDevices' = r.table.dev
             /\ firstSeenTimes' = r.table.first
             /\ closeContactDurations' = r.table.dur
             /\ lastCloseContactTimes' = r.table.last
             /\ trackedDeviceCount' = r.table.count
             /\ dataFile' = IF findTrackedDevice(r.table, deviceAddress) < 0 THEN dataFile
                          ELSE storeData(dataFile, mounted, r.data)
             /\ obsHist' = [obsHist EXCEPT ![deviceAddress] =
                                Append(@, [rssi |-> rssi, now |-> currentTime])]
             /\ lastEval' = [peer |-> deviceAddress, now |-> currentTime,
                             rssi |-> rssi,
                             before |-> Table,
                             wasTracked |-> findTrackedDevice(Table, deviceAddress) >= 0,
                             index |-> findTrackedDevice(r.table, deviceAddress),
                             data |-> r.data,
                             prev |-> lastData[deviceAddress],
                             cycle |-> cycles,
                             realNow |-> clock + SubU(currentTime, unixTime)]
             /\ lastData' = [lastData EXCEPT ![deviceAddress] = r.data]
             /\ everExposed' = IF r.isExposure THEN everExposed \cup {deviceAddress}
                               ELSE everExposed
             /\ nRecords' = nRecords + 1
             /\ logged' = Append(logged, r.data)
             /\ UNCHANGED mounted

\* the handler's effects: r is what it computed; the table is written back
\* and storeData appends the line
handleDevice(r, deviceAddress, rssi, currentTime) ==
             /\ trackedDevices' = r.table.dev
             /\ firstSeenTimes' = r.table.first
             /\ closeContactDurations' = r.table.dur
             /\ lastCloseContactTimes' = r.table.last
             /\ trackedDeviceCount' = r.table.count
             /\ dataFile' = storeData(dataFile, mounted, r.data)
             /\ obsHist' = [obsHist EXCEPT ![deviceAddress] =
                                Append(@, [rssi |-> rssi, now |-> currentTime])]
             /\ lastEval' = [peer |-> deviceAddress, now |-> currentTime,
                             rssi |-> rssi,
                             before |-> Table,
                             wasTracked |-> findTrackedDevice(Table, deviceAddress) >= 0,
                             index |-> findTrackedDevice(r.table, deviceAddress),
                             data |-> r.data,
                             prev |-> lastData[deviceAddress],
                             cycle |-> cycles,
                             realNow |-> clock + SubU(currentTime, unixTime)]
             /\ lastData' = [lastData EXCEPT ![deviceAddress] = r.data]
             /\ everExposed' = IF r.isExposure THEN everExposed \cup {deviceAddress}
                               ELSE everExposed
             /\ nRecords' = nRecords + 1
             /\ logged' = Append(logged, r.data)
             /\ UNCHANGED mounted

\* BluetoothScanner::processScannedDevice for a device that carries the
\* contact tracer's manufacturer data, observed at currentTime
processScannedDevice(deviceAddress, rssi, currentTime) ==
    IF rssi >= RSSI_THRESHOLD
    THEN handleDevice(recordDeviceContact(Table, deviceAddress, rssi, currentTime,
                                          lastUploadDuration),
                      deviceAddress, rssi, currentTime)
    ELSE UNCHANGED <<tableVars, fsVars, obsVars>>

\* BluetoothScanner::_processDevice, its counterpart in the scanner that
\* offers performBLEScan
_processDevice(deviceAddress, rssi, currentTime) ==
    IF rssi >= RSSI_THRESHOLD
    THEN handleDevice(_addDevice(Table, deviceAddress, rssi, currentTime,
                                 lastUploadDuration),
                      deviceAddress, rssi, currentTime)
    ELSE UNCHANGED <<tableVars, fsVars, obsVars>>

(***************************************************************************)
(* Initial states                                                          *)
(***************************************************************************)
\* power-on reset: RTC memory holds its initialisers, setup() has not run
PowerOn ==
    /\ bootCount = 0
    /\ lastUploadDuration = 0
    /\ trackedDevices = EmptyTable.dev
    /\ firstSeenTimes = EmptyTable.first
    /\ closeContactDurations = EmptyTable.dur
    /\ lastCloseContactTimes = EmptyTable.last
    /\ trackedDeviceCount = 0
    /\ unixTime = 0
    /\ wifi = FALSE
    /\ lastReply = NoReply
    /\ payload = <<>>
    /\ retryCounter = 0
    /\ uploadResult = "none"
    /\ netData = {}
    /\ netAck = {}
    /\ received = {}
    /\ appended = NoAppend
    /\ senders = NotCalled
    /\ obsHist = [p \in CapPeers |-> <<>>]
    /\ lastEval = NoEval
    /\ everExposed = {}
    /\ sent = <<>>
    /\ uploadStart = [log |-> <<>>, lastUploadDuration |-> 0]
    /\ clearedLog = <<>>
    /\ cycles = 0
    /\ nRecords = 0
    /\ logged = <<>>
    /\ lastData = [p \in CapPeers |-> NoData]
    /\ waited = 0
    /\ lastFailed = NoFailure

(***************************************************************************)
(* Evaluation specification: the scanner hands observations (peer, rssi,   *)
(* now) to processScannedDevice; now is drawn from EvalTimes.              *)
(***************************************************************************)
InitEval ==
    /\ PowerOn
    /\ pc = "scan"
    /\ mounted = TRUE
    /\ dataFile = <<>>
    /\ clock = 0

EvalObserve ==
    /\ nRecords < MaxObs
    /\ \E p \in EvalPeers, rssi \in RssiValues, now \in EvalTimes :
          processScannedDevice(p, rssi, now)
    /\ UNCHANGED <<rtcVars, cycleVars, uploadVars, netVars>>

NextEval == EvalObserve

SpecEval == InitEval /\ [][NextEval]_vars

(***************************************************************************)
(* The evaluation specification for the scanner with _addDevice, fed from  *)
(* a synchronised clock: the timestamps are positive and do not decrease   *)
(* (clock is the time of the last observation).                            *)
(***************************************************************************)
AddDeviceObserve ==
    /\ nRecords < MaxObs
    /\ \E p \in EvalPeers, rssi \in RssiValues, now \in EvalTimes \ {0} :
          /\ now >= clock
          /\ _processDevice(p, rssi, now)
          /\ clock' = now
    /\ UNCHANGED <<rtcVars, pc, wifi, unixTime, cycles, uploadVars, netVars>>

NextAddDevice == AddDeviceObserve

SpecAddDevice == InitEval /\ [][NextAddDevice]_vars

(***************************************************************************)
(* Properties of the contact accounting                                    *)
(***************************************************************************)
IsTracked(p) == findTrackedDevice(Table, p) >= 0

Accumulated(p) == closeContactDurations[findTrackedDevice(Table, p)]

SessionStart(p) == lastCloseContactTimes[findTrackedDevice(Table, p)]

IsClose(o) == o.rssi >= CLOSE_CONTACT_RSSI

\* The sum the specification defines over a sequence of observations: every
\* maximal run of close observations that a far observation ends contributes
\* (time of the far observation - time of the run's first observation); start
\* is the first timestamp of the open run, or -1 when no run is open.
RECURSIVE RunFold(_, _, _, _)
RunFold(s, i, start, acc) ==
    IF i > Len(s) THEN [acc |-> acc, start |-> start]
    ELSE IF IsClose(s[i])
         THEN RunFold(s, i + 1, IF start = -1 THEN s[i].now ELSE start, acc)
         ELSE RunFold(s, i + 1, -1,
                      IF start = -1 THEN acc ELSE acc + (s[i].now - start))

ClosedRunSum(s) == RunFold(s, 1, -1, 0).acc

OpenRunStart(s) == RunFold(s, 1, -1, 0).start

\* C4: for every sequence of observations of a tracked peer, the accumulator
\* equals the sum of the closed runs, and an open trailing run appears only in
\* the derived value accumulated + (now - sessionStart).
C4_AccumulatorIsClosedRunSum ==
    \A p \in EvalPeers :
        IsTracked(p) =>
            /\ Accumulated(p) = ClosedRunSum(obsHist[p])
            /\ lastEval.peer = p =>
                  lastEval.data.closeContactDuration =
                      ClosedRunSum(obsHist[p]) +
                      (IF OpenRunStart(obsHist[p]) = -1 THEN 0
                       ELSE lastEval.now - OpenRunStart(obsHist[p]))

Obs(now, rssi) == [rssi |-> rssi, now |-> now]

Scenario == <<Obs(0, -55), Obs(200, -80), Obs(350, -55), Obs(400, -80),
              Obs(460, -80), Obs(500, -55)>>

\* C5: the reference scenario (first contact at now = 0, close; far at 200;
\* close at 350; far at 400; far at 460; close at 500; evaluation at 560).
C5_Scenario ==
    \A p \in EvalPeers :
        /\ (obsHist[p] = SubSeq(Scenario, 1, 2) /\ lastEval.peer = p) =>
              /\ Accumulated(p) = 200
              /\ lastEval.data.closeContactDuration = 200
              /\ lastEval.data.contactDuration = 200
              /\ lastEval.data.exposureStatus = "NORMAL"
        /\ (obsHist[p] = SubSeq(Scenario, 1, 4) /\ lastEval.peer = p) =>
              /\ Accumulated(p) = 250
              /\ lastEval.data.exposureStatus = "NORMAL"
        /\ (obsHist[p] = SubSeq(Scenario, 1, 5) /\ lastEval.peer = p) =>
              /\ Accumulated(p) = 250
              /\ SessionStart(p) = 0
              /\ lastEval.data.exposureStatus = "NORMAL"
        /\ obsHist[p] = Scenario =>
              /\ closeContactDurationNow(Table, p, 560) = 310
              /\ isExposureEvent(Table, p, 560)

\* C6: once isExposureEvent has returned true for a peer, every later
\* evaluation of that peer returns true.
C6_ExposureSticky ==
    (lastEval.peer # NoDevice /\ lastEval.peer \in everExposed) =>
        lastEval.data.exposureStatus = "EXPOSURE"

(***************************************************************************)
(* Capacity specification: NumCapPeers distinct peers show up one after    *)
(* the other (the addresses are interchangeable, so peer count+1 is the    *)
(* next new one); once the table is full the first and the last tracked    *)
(* peer and the peers that found no room are observed again, each time     *)
(* EXPOSURE_DURATION_THRESHOLD seconds after the one before.  The storage  *)
(* is not mounted in this cycle (setup() only logs a failed SPIFFS.begin   *)
(* when bootCount > 0), so storeData returns at its failed open.           *)
(***************************************************************************)
CapWatch == {1, MAX_TRACKED_DEVICES} \cup (CapPeers \ (1 .. MAX_TRACKED_DEVICES))

InitCap ==
    /\ PowerOn
    /\ pc = "scan"
    /\ mounted = FALSE
    /\ dataFile = <<>>
    /\ clock = 0

CapObserve ==
    /\ \E p \in CapPeers, rssi \in RssiValues :
          \/ /\ trackedDeviceCount < MAX_TRACKED_DEVICES
             /\ p = trackedDeviceCount + 1
             /\ processScannedDevice(p, rssi, CapFillTime)
          \/ /\ trackedDeviceCount = MAX_TRACKED_DEVICES
             /\ nRecords < MAX_TRACKED_DEVICES + MaxCapObs
             /\ p \in CapWatch
             /\ processScannedDevice(p, rssi, CapLateTime +
                    (nRecords - MAX_TRACKED_DEVICES) * EXPOSURE_DURATION_THRESHOLD)
    /\ UNCHANGED <<rtcVars, cycleVars, uploadVars, netVars>>

NextCap == CapObserve

SpecCap == InitCap /\ [][NextCap]_vars

\* the capacity specification in a cycle in which the storage is mounted
InitCapLog ==
    /\ PowerOn
    /\ pc = "scan"
    /\ mounted = TRUE
    /\ dataFile = <<>>
    /\ clock = 0

SpecCapLog == InitCapLog /\ [][NextCap]_vars

\* C7: the table never holds more than MAX_TRACKED_DEVICES entries, and an
\* observation of a peer that found the table full leaves the count and every
\* entry's address, firstSeen, accumulator and session start unchanged.
C7_CapacityBound ==
    /\ trackedDeviceCount <= MAX_TRACKED_DEVICES
    /\ (/\ lastEval.peer # NoDevice
        /\ lastEval.before.count = MAX_TRACKED_DEVICES
        /\ ~lastEval.wasTracked) => Table = lastEval.before

\* the table is full, holds an open session and a closed one, and a further
\* peer has just been observed in close range
C7_Witness ==
    /\ lastEval.peer # NoDevice
    /\ lastEval.before.count = MAX_TRACKED_DEVICES
    /\ ~lastEval.wasTracked
    /\ IsClose(lastEval)
    /\ \E i \in Indices : lastCloseContactTimes[i] > 0
    /\ \E i \in Indices : closeContactDurations[i] > 0

\* C18: a peer that was observed and is not in the table found the table
\* full; it is never inserted afterwards, its observations leave the table
\* as it was, every line built for it has contactDuration 0,
\* closeContactDuration 0 and status NORMAL, isExposureEvent never returned
\* true for it, and the scan goes on.
C18_FullTableNoAccounting ==
    /\ [](\A p \in CapPeers :
             (obsHist[p] # <<>> /\ ~IsTracked(p)) =>
                 /\ trackedDeviceCount = MAX_TRACKED_DEVICES
                 /\ lastData[p].contactDuration = 0
                 /\ lastData[p].closeContactDuration = 0
                 /\ lastData[p].exposureStatus = "NORMAL"
                 /\ p \notin everExposed
                 /\ lastEval.peer = p =>
                        (lastEval.index = -1 /\ Table = lastEval.before)
                 /\ pc = "scan")
    /\ [][\A p \in CapPeers :
              (obsHist[p] # <<>> /\ ~IsTracked(p)) => ~IsTracked(p)']_vars

\* the peer that found no room was observed in close range twice,
\* EXPOSURE_DURATION_THRESHOLD seconds apart
C18_Witness ==
    \E p \in CapPeers :
        /\ ~IsTracked(p)
        /\ Len(obsHist[p]) = 2
        /\ IsClose(obsHist[p][1]) /\ IsClose(obsHist[p][2])
        /\ obsHist[p][2].now - obsHist[p][1].now >= EXPOSURE_DURATION_THRESHOLD
        /\ lastEval.peer = p

(***************************************************************************)
(* Device specification: the wake cycle of setup(), the upload, the        *)
(* channel and the collector.                                              *)
(***************************************************************************)
\* seconds from one boot to the next
CycleSeconds == SCAN_TIME + DEEP_SLEEP_TIME

\* the peers and signal strengths a scan of the device specification reports
ScanPeers == {1}

\* a close signal, and one below RSSI_THRESHOLD that the scanner drops
ScanRssi == {-55, -110}

\* "# Upload Timestamp: <unixTime>\n" + data
dataWithMetadata(time, data) == [uploadTimestamp |-> time, content |-> data]

Init ==
    /\ PowerOn
    /\ pc = "boot"
    /\ mounted = FALSE
    /\ dataFile = <<>>
    /\ clock = ClockStart

\* WifiDataSender::_connectToWiFi: WiFi.status() after the 10 s limit
_connectToWiFi(connected) == connected

\* setup() up to the scan: mount, format on bootCount == 0, getUnixTime
\* (which connects, and returns 0 when the time was not obtained)
Boot ==
    /\ pc = "boot"
    /\ cycles < MaxCycles
    /\ mounted' = TRUE
    /\ dataFile' = IF bootCount = 0 THEN format(dataFile) ELSE dataFile
    /\ logged' = IF bootCount = 0 THEN <<>> ELSE logged
    /\ \E connected \in BOOLEAN, synced \in BOOLEAN :
          /\ synced => connected
          /\ wifi' = connected
          /\ unixTime' = IF synced THEN clock ELSE 0
    /\ cycles' = cycles + 1
    /\ pc' = "scan"
    /\ UNCHANGED <<rtcVars, tableVars, clock, uploadVars, netVars,
                   obsHist, lastEval, everExposed, nRecords, lastData>>

\* performBLEScan: one found device is processed
ScanDevice ==
    /\ pc = "scan"
    /\ nRecords < MaxRecords
    /\ \E p \in ScanPeers, rssi \in ScanRssi :
          processScannedDevice(p, rssi, AddU(unixTime, SCAN_TIME))
    /\ UNCHANGED <<rtcVars, cycleVars, uploadVars, netVars>>

uploadDue_fromZero(count) == count % UPLOAD_PERIOD = 0

uploadDue(count) == count > 0 /\ count % UPLOAD_PERIOD = 0

\* the scan is over; setup() reads the log and calls uploadData (which connects
\* when WiFi is down and then calls _sendDataWithConfirmation), or goes to sleep
ScanDone ==
    /\ pc = "scan"
    /\ IF uploadDue(bootCount)
       THEN /\ payload' = dataWithMetadata(unixTime, readData(dataFile, mounted))
            /\ uploadStart' = [log |-> dataFile,
                               lastUploadDuration |-> lastUploadDuration]
            /\ \E connected \in BOOLEAN :
                  wifi' = IF wifi THEN TRUE ELSE _connectToWiFi(connected)
            /\ retryCounter' = 1
            /\ sent' = <<>>
            /\ pc' = "send"
       ELSE /\ pc' = "sleep"
            /\ UNCHANGED <<payload, uploadStart, retryCounter, sent, wifi>>
    /\ UNCHANGED <<rtcVars, tableVars, fsVars, unixTime, clock, cycles,
                   uploadResult, lastReply, clearedLog, waited, lastFailed,
                   netVars, obsVars>>

\* _sendDataWithConfirmation: beginPacket / print / endPacket; the datagram
\* leaves the device only when WiFi is up
Transmit ==
    /\ pc = "send"
    /\ netData' = IF wifi THEN netData \cup {payload} ELSE netData
    /\ sent' = Append(sent, payload)
    /\ lastReply' = NoReply
    /\ pc' = "wait"
    /\ UNCHANGED <<rtcVars, tableVars, fsVars, wifi, unixTime, clock, cycles,
                   payload, retryCounter, uploadResult, uploadStart, clearedLog,
                   waited, lastFailed, netAck, received, appended, senders,
                   obsVars>>

\* millis() - uploadStartTime when the acknowledgement is accepted in wait k
uploadDuration(k) == (k - 1) * ACK_TIMEOUT + AckLatency

\* _udp.read(ackBuffer, len): the first len bytes of the datagram
udpRead(datagram, len) ==
    SubSeq(datagram, 1, IF Len(datagram) < len THEN Len(datagram) ELSE len)

\* the body of waitForAcknowledgment's loop for one datagram: TRUE when it
\* makes waitForAcknowledgment return true
waitForAcknowledgment(datagram) ==
    LET packetSize == Len(datagram)
        ackBuffer  == udpRead(datagram, 3)
    IN  /\ packetSize > 0
        /\ Len(ackBuffer) > 0
        /\ ackBuffer = ACK

uploadSucceeded_resetsTable(datagram) ==
    /\ uploadResult' = "ok"
    /\ lastReply' = [read |-> TRUE, data |-> datagram]
    /\ lastUploadDuration' = uploadDuration(retryCounter)
    /\ clearedLog' = dataFile
    /\ dataFile' = format(dataFile)
    /\ logged' = <<>>
    /\ waited' = 0
    /\ lastFailed' = NoFailure
    /\ pc' = "sleep"
    /\ trackedDevices' = EmptyTable.dev
    /\ firstSeenTimes' = EmptyTable.first
    /\ closeContactDurations' = EmptyTable.dur
    /\ lastCloseContactTimes' = EmptyTable.last
    /\ trackedDeviceCount' = 0
    /\ UNCHANGED <<bootCount, mounted, wifi, unixTime, clock, cycles,
                   payload, retryCounter, sent, uploadStart, netVars,
                   obsHist, lastEval, everExposed, nRecords, lastData>>

\* waitForAcknowledgment returned true on reading datagram: uploadData returns
\* true, setup() stores the duration and formats the file system
uploadSucceeded(datagram) ==
    /\ uploadResult' = "ok"
    /\ lastReply' = [read |-> TRUE, data |-> datagram]
    /\ lastUploadDuration' = uploadDuration(retryCounter)
    /\ clearedLog' = dataFile
    /\ dataFile' = format(dataFile)
    /\ logged' = <<>>
    /\ waited' = 0
    /\ lastFailed' = NoFailure
    /\ pc' = "sleep"
    /\ UNCHANGED <<bootCount, tableVars, mounted, wifi, unixTime, clock, cycles,
                   payload, retryCounter, sent, uploadStart, netVars,
                   obsHist, lastEval, everExposed, nRecords, lastData>>

replyIgnored_restartsTimeout(datagram) ==
    /\ lastReply' = [read |-> TRUE, data |-> datagram]
    /\ waited' = 0
    /\ UNCHANGED <<rtcVars, tableVars, fsVars, cycleVars, payload, retryCounter,
                   uploadResult, sent, uploadStart, clearedLog, lastFailed,
                   netVars, obsVars>>

\* the wait goes on after reading datagram: delay(10) and the next iteration,
\* with the deadline that was computed when the wait began
replyIgnored(datagram) ==
    /\ lastReply' = [read |-> TRUE, data |-> datagram]
    /\ waited' = waited + 1
    /\ UNCHANGED <<rtcVars, tableVars, fsVars, cycleVars, payload, retryCounter,
                   uploadResult, sent, uploadStart, clearedLog, lastFailed,
                   netVars, obsVars>>

\* a reply of the collector reaches the device during the wait
AckAccepted ==
    /\ pc = "wait"
    /\ wifi
    /\ waited < WaitIterations
    /\ \E a \in netAck :
          IF waitForAcknowledgment(a.data) THEN uploadSucceeded(a.data)
          ELSE replyIgnored(a.data)

AckTimeout_offByOne ==
    /\ pc = "wait"
    /\ retryCounter' = retryCounter + 1
    /\ IF retryCounter + 1 < RETRY_COUNTER
       THEN /\ pc' = "send"
            /\ UNCHANGED <<uploadResult, lastFailed>>
       ELSE /\ pc' = "sleep"
            /\ uploadResult' = "failed"
            /\ lastFailed' = [failed |-> TRUE, log |-> dataFile, cycle |-> cycles]
    /\ waited' = 0
    /\ UNCHANGED <<rtcVars, tableVars, fsVars, wifi, unixTime, clock, cycles,
                   payload, sent, lastReply, uploadStart, clearedLog, netVars,
                   obsVars>>

AckTimeout_formats ==
    /\ pc = "wait"
    /\ retryCounter' = retryCounter + 1
    /\ IF retryCounter + 1 <= RETRY_COUNTER
       THEN /\ pc' = "send"
            /\ UNCHANGED <<uploadResult, dataFile, logged, lastFailed>>
       ELSE /\ pc' = "sleep"
            /\ uploadResult' = "failed"
            /\ lastFailed' = [failed |-> TRUE, log |-> dataFile, cycle |-> cycles]
            /\ dataFile' = format(dataFile)
            /\ logged' = <<>>
    /\ waited' = 0
    /\ UNCHANGED <<rtcVars, tableVars, mounted, wifi, unixTime, clock, cycles,
                   payload, sent, lastReply, uploadStart, clearedLog, netVars,
                   obsHist, lastEval, everExposed, nRecords, lastData>>

AckTimeout_recordsDuration ==
    /\ pc = "wait"
    /\ retryCounter' = retryCounter + 1
    /\ IF retryCounter + 1 <= RETRY_COUNTER
       THEN /\ pc' = "send"
            /\ UNCHANGED <<uploadResult, lastFailed>>
       ELSE /\ pc' = "sleep"
            /\ uploadResult' = "failed"
            /\ lastFailed' = [failed |-> TRUE, log |-> dataFile, cycle |-> cycles]
    /\ lastUploadDuration' = uploadDuration(retryCounter)
    /\ waited' = 0
    /\ UNCHANGED <<bootCount, tableVars, fsVars, wifi, unixTime, clock, cycles,
                   payload, sent, lastReply, uploadStart, clearedLog, netVars,
                   obsVars>>

\* waitForAcknowledgment runs into ACK_TIMEOUT: the loop sends again, or
\* gives up after RETRY_COUNTER transmissions and uploadData returns false
AckTimeout ==
    /\ pc = "wait"
    /\ retryCounter' = retryCounter + 1
    /\ IF retryCounter + 1 <= RETRY_COUNTER
       THEN /\ pc' = "send"
            /\ UNCHANGED <<uploadResult, lastFailed>>
       ELSE /\ pc' = "sleep"
            /\ uploadResult' = "failed"
            /\ lastFailed' = [failed |-> TRUE, log |-> dataFile, cycle |-> cycles]
    /\ waited' = 0
    /\ UNCHANGED <<rtcVars, tableVars, fsVars, wifi, unixTime, clock, cycles,
                   payload, sent, lastReply, uploadStart, clearedLog, netVars,
                   obsVars>>

\* bootCount++ and deep sleep; everything outside RTC memory and flash is lost
Sleep ==
    /\ pc = "sleep"
    /\ bootCount' = AddU(bootCount, 1)
    /\ clock' = clock + CycleSeconds
    /\ mounted' = FALSE
    /\ wifi' = FALSE
    /\ unixTime' = 0
    /\ lastReply' = NoReply
    /\ payload' = <<>>
    /\ retryCounter' = 0
    /\ uploadResult' = "none"
    /\ sent' = <<>>
    /\ pc' = "boot"
    /\ UNCHANGED <<lastUploadDuration, tableVars, dataFile, cycles, uploadStart,
                   clearedLog, waited, lastFailed, netVars, obsVars>>

\* The channel: a datagram that was sent stays in netData (netAck) for good.
\* It is delivered any number of times (duplication), after any delay, or
\* never (loss); a reply that reaches the device outside a wait is delivered
\* again later or never.

\* parseInt of a field that is not a number, and of the digits of n
NotANumber == [nan |-> TRUE]

Number(n) == [nan |-> FALSE, value |-> n]

\* msg.toString().trim().split('\n'), each line with its timestamp field parsed:
\* a payload of the device is the metadata line followed by the log; a datagram
\* of another sender is given by its lines
datagramLines(d) ==
    IF "lines" \in DOMAIN d THEN d.lines
    ELSE <<[meta |-> Number(d.uploadTimestamp)]>> \o d.content

\* new Date(parseInt(field) * 1000).toISOString(): a RangeError for NaN
toISOString(timestampNum) == [threw |-> timestampNum.nan]

\* the collector's 'message' handler: the replies it sends, whether it saves
\* the data, and whether it ends in an exception that nothing catches
onMessage(d) ==
    LET lines == datagramLines(d)
        isMeta(l) == "meta" \in DOMAIN l
        isEntry(l) == "timeStamp" \in DOMAIN l
        threw == \E k \in 1 .. Len(lines) :
                    isMeta(lines[k]) /\ toISOString(lines[k].meta).threw
        validEntries == Len(SelectSeq(lines, LAMBDA l : isEntry(l) /\ l.timeStamp > 0))
    IN  IF lines = <<>>
        THEN [replies |-> <<ACK>>, saved |-> FALSE, threw |-> FALSE]
        ELSE IF threw
             THEN [replies |-> <<>>, saved |-> FALSE, threw |-> TRUE]
             ELSE [replies |-> <<ACK>>, saved |-> validEntries > 0, threw |-> FALSE]

\* the collector process runs until a handler ends in an exception; it hands
\* a datagram to the handler and the replies go to the datagram's sender
CollectorReceive ==
    /\ \A e \in received : ~onMessage(e).threw
    /\ \E d \in netData :
          /\ received' = received \cup {d}
          /\ netAck' = netAck \cup
                 {[data |-> onMessage(d).replies[k], for |-> d] :
                     k \in 1 .. Len(onMessage(d).replies)}
    /\ UNCHANGED <<rtcVars, tableVars, fsVars, cycleVars, uploadVars, obsVars,
                   netData, appended, senders>>

Next ==
    \/ Boot
    \/ ScanDevice
    \/ ScanDone
    \/ Transmit
    \/ AckAccepted
    \/ AckTimeout
    \/ Sleep
    \/ CollectorReceive

Spec == Init /\ [][Next]_vars

(***************************************************************************)
(* The device specification with other hosts on the network: during a wait *)
(* a datagram that is not a reply of the collector may reach the device's  *)
(* port.                                                                   *)
(***************************************************************************)
\* payloads of such datagrams: empty, shorter than ACK, other bytes, longer
StrayPayloads == {<<>>, <<"A", "C">>, <<"N", "A", "K">>, <<"A", "C", "K", "X">>}

StrayReply ==
    /\ pc = "wait"
    /\ wifi
    /\ waited < WaitIterations
    /\ \E datagram \in StrayPayloads :
          IF waitForAcknowledgment(datagram) THEN uploadSucceeded(datagram)
          ELSE replyIgnored(datagram)

NextReply == Next \/ StrayReply

SpecReply == Init /\ [][NextReply]_vars


(***************************************************************************)
(* Collector specification: datagrams of any sender reach the collector's  *)
(* port while the device is off.                                           *)
(***************************************************************************)
\* an empty datagram, the header alone, a line with timestamp 0, a metadata
\* line without a number, and two payloads of the device (no time and an
\* empty log; a log with one line)
Datagrams ==
    {[lines |-> <<>>],
     [lines |-> <<HEADER>>],
     [lines |-> <<recordDeviceContact(EmptyTable, 1, -55, 0, 0).data>>],
     [lines |-> <<[meta |-> NotANumber]>>],
     dataWithMetadata(0, <<>>),
     dataWithMetadata(ClockStart,
         <<HEADER, recordDeviceContact(EmptyTable, 1, -55, ClockStart, 0).data>>)}

DatagramArrives ==
    /\ \E d \in Datagrams : netData' = netData \cup {d}
    /\ UNCHANGED <<rtcVars, tableVars, fsVars, cycleVars, uploadVars, obsVars,
                   netAck, received, appended, senders>>

\* the callback of fs.appendFile runs for a datagram the handler saved: the
\* data is in the per-device file (err is null) or the write failed
AppendDone ==
    /\ \E d \in received, err \in BOOLEAN :
          /\ onMessage(d).saved
          /\ d \notin appended.ok \cup appended.err
          /\ appended' = IF err THEN [appended EXCEPT !.err = @ \cup {d}]
                         ELSE [appended EXCEPT !.ok = @ \cup {d}]
    /\ UNCHANGED <<rtcVars, tableVars, fsVars, cycleVars, uploadVars, obsVars,
                   netData, netAck, received, senders>>

NextCollector == DatagramArrives \/ CollectorReceive \/ AppendDone

SpecCollector == Init /\ [][NextCollector]_vars

(***************************************************************************)
(* The device specification with storage faults: SPIFFS.begin(true) may    *)
(* fail to mount the file system; it then formats the partition and mounts *)
(* again.                                                                  *)
(***************************************************************************)
\* the wake cycles in which the mount can fail (the cold start, the cycles up
\* to the first upload, the upload cycle and the cycle after it)
MaxFaultCycles == 7

BootMountFailed_haltsInAnyCycle ==
    /\ pc = "boot"
    /\ cycles < MaxFaultCycles
    /\ \E erased \in BOOLEAN, recovered \in BOOLEAN :
          /\ recovered => erased
          /\ mounted' = recovered
          /\ dataFile' = IF erased \/ bootCount = 0 THEN format(dataFile) ELSE dataFile
          /\ logged' = IF erased \/ bootCount = 0 THEN <<>> ELSE logged
          /\ pc' = IF ~recovered THEN "halt" ELSE "scan"
    /\ \E connected \in BOOLEAN, synced \in BOOLEAN :
          /\ synced => connected
          /\ wifi' = IF pc' = "halt" THEN FALSE ELSE connected
          /\ unixTime' = IF synced /\ pc' # "halt" THEN clock ELSE 0
    /\ cycles' = cycles + 1
    /\ UNCHANGED <<rtcVars, tableVars, clock, uploadVars, netVars,
                   obsHist, lastEval, everExposed, nRecords, lastData>>

\* setup() up to the scan when the first mount fails.  erased: the format of
\* begin(true) wiped the partition; recovered: the mount after it succeeded.
\* On bootCount == 0 setup() formats and runs checkSPIFFS, which formats and
\* mounts once more and halts when that fails too.
BootMountFailed ==
    /\ pc = "boot"
    /\ cycles < MaxFaultCycles
    /\ \E erased \in BOOLEAN, recovered \in BOOLEAN :
          /\ recovered => erased
          /\ mounted' = recovered
          /\ dataFile' = IF erased \/ bootCount = 0 THEN format(dataFile) ELSE dataFile
          /\ logged' = IF erased \/ bootCount = 0 THEN <<>> ELSE logged
          /\ pc' = IF bootCount = 0 /\ ~recovered THEN "halt" ELSE "scan"
    /\ \E connected \in BOOLEAN, synced \in BOOLEAN :
          /\ synced => connected
          /\ wifi' = IF pc' = "halt" THEN FALSE ELSE connected
          /\ unixTime' = IF synced /\ pc' # "halt" THEN clock ELSE 0
    /\ cycles' = cycles + 1
    /\ UNCHANGED <<rtcVars, tableVars, clock, uploadVars, netVars,
                   obsHist, lastEval, everExposed, nRecords, lastData>>

NextStorage == Next \/ BootMountFailed

SpecStorage == Init /\ [][NextStorage]_vars

(***************************************************************************)
(* Cycle specification: one wake cycle, from the start of setup() to the   *)
(* sleep step, of a device that has met no peer yet: the cold start        *)
(* (bootCount = 0) or the first upload cycle (bootCount = 5).  The mount   *)
(* may fail and other hosts on the network may send datagrams.  The device *)
(* keeps running: a step of setup() that can be taken is taken.            *)
(***************************************************************************)
InitCycle ==
    /\ bootCount \in {0, UPLOAD_PERIOD}
    /\ lastUploadDuration = 0
    /\ trackedDevices = EmptyTable.dev
    /\ firstSeenTimes = EmptyTable.first
    /\ closeContactDurations = EmptyTable.dur
    /\ lastCloseContactTimes = EmptyTable.last
    /\ trackedDeviceCount = 0
    /\ mounted = FALSE
    /\ dataFile = <<>>
    /\ pc = "boot"
    /\ clock = ClockStart + bootCount * CycleSeconds
    /\ wifi = FALSE
    /\ unixTime = 0
    /\ payload = <<>>
    /\ retryCounter = 0
    /\ uploadResult = "none"
    /\ netData = {}
    /\ netAck = {}
    /\ received = {}
    /\ appended = NoAppend
    /\ senders = NotCalled
    /\ obsHist = [p \in CapPeers |-> <<>>]
    /\ lastEval = NoEval
    /\ everExposed = {}
    /\ sent = <<>>
    /\ lastReply = NoReply
    /\ uploadStart = [log |-> <<>>, lastUploadDuration |-> 0]
    /\ clearedLog = <<>>
    /\ cycles = bootCount
    /\ nRecords = 0
    /\ logged = <<>>
    /\ lastData = [p \in CapPeers |-> NoData]
    /\ waited = 0
    /\ lastFailed = NoFailure

\* the steps of setup() that do not depend on what the scan finds
CycleStep ==
    \/ Boot
    \/ BootMountFailed
    \/ ScanDone
    \/ Transmit
    \/ AckAccepted
    \/ AckTimeout
    \/ StrayReply

NextCycle ==
    \/ Boot
    \/ BootMountFailed
    \/ ScanDevice
    \/ ScanDone
    \/ Transmit
    \/ AckAccepted
    \/ AckTimeout
    \/ StrayReply
    \/ CollectorReceive

SpecCycle == InitCycle /\ [][NextCycle]_vars /\ WF_vars(CycleStep)

(***************************************************************************)
(* Sender comparison: the two implementations of                           *)
(* WifiDataSender::_sendDataWithConfirmation, the while loop with the      *)
(* _packetAcknowledged flag and the for loop that calls                    *)
(* waitForAcknowledgment, are called with the same data and are fed the    *)
(* same channel events.  An event is what one evaluation of the wait loop  *)
(* meets: a datagram parsePacket reports, or the end of ACK_TIMEOUT.       *)
(***************************************************************************)
\* channel events of one comparison
MaxEvents == 4

Timeout == [timeout |-> TRUE, data |-> <<>>]

Reply(datagram) == [timeout |-> FALSE, data |-> datagram]

ChannelEvents == {Timeout} \cup {Reply(d) : d \in StrayPayloads \cup {ACK}}

\* data handed to _sendDataWithConfirmation
SenderData == {<<HEADER>>, <<>>}

\* the while loop from its test to the next wait or to the return
whileLoop_oneMore(s, data) ==
    IF s._retryCounter <= RETRY_COUNTER /\ ~s._packetAcknowledged
    THEN [s EXCEPT !._retryCounter = @ + 1,
                   !.sent = Append(@, data),
                   !.at = "wait"]
    ELSE [s EXCEPT !.at = "returned", !.result = s._packetAcknowledged]

\* while (_retryCounter < RETRY_COUNTER && !_packetAcknowledged): count,
\* send, wait; after the loop the flag is the result
whileLoop(s, data) ==
    IF s._retryCounter < RETRY_COUNTER /\ ~s._packetAcknowledged
    THEN [s EXCEPT !._retryCounter = @ + 1,
                   !.sent = Append(@, data),
                   !.at = "wait"]
    ELSE [s EXCEPT !.at = "returned", !.result = s._packetAcknowledged]

\* entry of the while-loop implementation, up to its first wait
whileLoopCalled(data) ==
    whileLoop([_packetAcknowledged |-> FALSE, _retryCounter |-> 0,
               sent |-> <<>>, at |-> "test", result |-> FALSE], data)

\* one channel event in the inner loop of the while-loop implementation
whileLoopEvent(s, data, ev) ==
    IF s.at # "wait" THEN s
    ELSE IF ev.timeout THEN whileLoop(s, data)
    ELSE LET packetSize == Len(ev.data)
             ackBuffer  == udpRead(ev.data, 3)
         IN  IF packetSize # 0 /\ Len(ackBuffer) > 0 /\ ackBuffer = ACK
             THEN whileLoop([s EXCEPT !._packetAcknowledged = TRUE], data)
             ELSE s

\* the for loop from its test to the next wait or to the return
forLoop(s, data) ==
    IF s._retryCounter <= RETRY_COUNTER
    THEN [s EXCEPT !.sent = Append(@, data), !.at = "wait"]
    ELSE [s EXCEPT !.at = "returned", !.result = FALSE]

\* entry of the for-loop implementation, up to its first wait
forLoopCalled(data) ==
    forLoop([_retryCounter |-> 1, sent |-> <<>>, at |-> "test",
             result |-> FALSE], data)

\* one channel event in waitForAcknowledgment of the for-loop implementation
forLoopEvent(s, data, ev) ==
    IF s.at # "wait" THEN s
    ELSE IF ev.timeout THEN forLoop([s EXCEPT !._retryCounter = @ + 1], data)
    ELSE IF waitForAcknowledgment(ev.data)
         THEN [s EXCEPT !.at = "returned", !.result = TRUE]
         ELSE s

\* both implementations are called with the same data
SendersCalled ==
    /\ ~senders.called
    /\ \E data \in SenderData :
          senders' = [called |-> TRUE, data |-> data, events |-> <<>>,
                      byWhile |-> whileLoopCalled(data),
                      byFor |-> forLoopCalled(data)]
    /\ UNCHANGED <<rtcVars, tableVars, fsVars, cycleVars, uploadVars, obsVars,
                   netData, netAck, received, appended>>

\* the channel delivers the next event to both
ChannelEvent ==
    /\ senders.called
    /\ Len(senders.events) < MaxEvents
    /\ senders.byWhile.at = "wait" \/ senders.byFor.at = "wait"
    /\ \E ev \in ChannelEvents :
          senders' = [senders EXCEPT
                         !.events = Append(@, ev),
                         !.byWhile = whileLoopEvent(@, senders.data, ev),
                         !.byFor = forLoopEvent(@, senders.data, ev)]
    /\ UNCHANGED <<rtcVars, tableVars, fsVars, cycleVars, uploadVars, obsVars,
                   netData, netAck, received, appended>>

NextSenders == SendersCalled \/ ChannelEvent

SpecSenders == Init /\ [][NextSenders]_vars


(***************************************************************************)
(* Clock specification: the wake cycles between two uploads, reduced to    *)
(* the time source and the scan.  Every cycle getUnixTime returns the real *)
(* time or 0, and the scan reports the one peer in close or far range.     *)
(* The storage is not mounted, as in the capacity specification.           *)
(***************************************************************************)
\* observations of the clock specification
MaxClockObs == 4

InitClock ==
    /\ PowerOn
    /\ pc = "boot"
    /\ mounted = FALSE
    /\ dataFile = <<>>
    /\ clock = ClockStart

\* getUnixTime
ClockBoot ==
    /\ pc = "boot"
    /\ nRecords < MaxClockObs
    /\ \E synced \in BOOLEAN : unixTime' = IF synced THEN clock ELSE 0
    /\ pc' = "scan"
    /\ UNCHANGED <<rtcVars, tableVars, fsVars, wifi, clock, cycles, uploadVars,
                   netVars, obsVars>>

\* performBLEScan reports the peer once; bootCount is not a multiple of
\* UPLOAD_PERIOD, the device sleeps
ClockObserve ==
    /\ pc = "scan"
    /\ \E rssi \in RssiValues :
          processScannedDevice(1, rssi, AddU(unixTime, SCAN_TIME))
    /\ clock' = clock + CycleSeconds
    /\ unixTime' = 0
    /\ cycles' = cycles + 1
    /\ pc' = "boot"
    /\ UNCHANGED <<rtcVars, wifi, uploadVars, netVars>>

NextClock == ClockBoot \/ ClockObserve

SpecClock == InitClock /\ [][NextClock]_vars

(***************************************************************************)
(* A device that has been running for ULONG_MOD - 1 wake cycles: bootCount *)
(* is about to wrap.  Peer 1 was seen once in close range; the log was     *)
(* uploaded and cleared since.                                             *)
(***************************************************************************)
WrapFirstSeen == 500

InitWrap ==
    LET r == recordDeviceContact(EmptyTable, 1, -55, WrapFirstSeen, 0)
        T == r.table
    IN  /\ lastData = [p \in CapPeers |-> IF p = 1 THEN r.data ELSE NoData]
        /\ bootCount = ULONG_MOD - 1
        /\ lastUploadDuration = AckLatency
        /\ trackedDevices = T.dev
        /\ firstSeenTimes = T.first
        /\ closeContactDurations = T.dur
        /\ lastCloseContactTimes = T.last
        /\ trackedDeviceCount = T.count
        /\ unixTime = 0
        /\ wifi = FALSE
        /\ lastReply = NoReply
        /\ payload = <<>>
        /\ retryCounter = 0
        /\ uploadResult = "none"
        /\ netData = {}
        /\ netAck = {}
        /\ received = {}
        /\ appended = NoAppend
        /\ senders = NotCalled
        /\ obsHist = [p \in CapPeers |-> IF p = 1 THEN <<[rssi |-> -55, now |-> WrapFirstSeen]>>
                                         ELSE <<>>]
        /\ lastEval = NoEval
        /\ everExposed = {}
        /\ sent = <<>>
        /\ uploadStart = [log |-> <<>>, lastUploadDuration |-> 0]
        /\ clearedLog = <<>>
        /\ waited = 0
        /\ lastFailed = NoFailure
        /\ cycles = 0
        /\ nRecords = 0
        /\ logged = <<>>
        /\ pc = "boot"
        /\ mounted = FALSE
        /\ dataFile = <<>>
        /\ clock = ClockStart

SpecWrap == InitWrap /\ [][Next]_vars

(***************************************************************************)
(* Properties of the upload, the log and the wake cycle                    *)
(***************************************************************************)
Range(s) == {s[i] : i \in 1 .. Len(s)}

\* every record of the log content is a record of the datagram
ContainsRecords(d, log) == Range(Records(log)) \subseteq Range(Records(d.content))

\* C1: whenever the log is cleared after uploadData returned true, the
\* collector has received a datagram that contains every record the log held
\* when it was cleared.
C1_AtLeastOnce ==
    (pc = "sleep" /\ uploadResult = "ok") =>
        \E d \in received : ContainsRecords(d, clearedLog)

\* C2: one uploadData transmits at most RETRY_COUNTER times, always the same
\* payload; an acknowledgement accepted in wait k ends it with success after k
\* transmissions, no acknowledgement ends it with failure after RETRY_COUNTER.
C2_RetryBudget ==
    /\ Len(sent) <= RETRY_COUNTER
    /\ \A i \in 1 .. Len(sent) : sent[i] = payload
    /\ pc = "wait" => Len(sent) = retryCounter
    /\ uploadResult = "ok" =>
          Len(sent) = retryCounter /\ retryCounter \in 1 .. RETRY_COUNTER
    /\ uploadResult = "failed" => Len(sent) = RETRY_COUNTER

\* the acknowledgement came in the wait of the second attempt
C2_Witness ==
    /\ pc = "sleep"
    /\ uploadResult = "ok"
    /\ Len(sent) = 2
    /\ sent[1] = sent[2]
    /\ Len(Records(sent[1].content)) >= 1

\* C3: after a failed upload the log and lastUploadDuration are what they
\* were when uploadData was called, and setup() goes on to the sleep step.
C3_FailureKeepsLog ==
    uploadResult = "failed" =>
        /\ pc = "sleep"
        /\ dataFile = uploadStart.log
        /\ lastUploadDuration = uploadStart.lastUploadDuration

\* an upload fails with records in the log, after an earlier upload succeeded
C3_Witness ==
    /\ uploadResult = "failed"
    /\ pc = "sleep"
    /\ Len(Records(dataFile)) >= 1
    /\ lastUploadDuration > 0

\* C8: addOrUpdateTrackedDevice changes nothing for a tracked peer, and the
\* stored firstSeen is the timestamp of the peer's first observation.
C8_FirstSeenWriteOnce ==
    \A p \in EvalPeers :
        IsTracked(p) =>
            /\ firstSeenTimes[findTrackedDevice(Table, p)] = obsHist[p][1].now
            /\ \A t \in EvalTimes \cup {AddU(unixTime, SCAN_TIME)} :
                  addOrUpdateTrackedDevice(Table, p, t) = Table

\* a tracked peer is observed again in a later wake cycle, after an upload
C8_Witness ==
    \E p \in EvalPeers :
        /\ IsTracked(p)
        /\ Len(obsHist[p]) >= 2
        /\ obsHist[p][2].now > obsHist[p][1].now
        /\ lastUploadDuration > 0

C11_MalformedIgnored ==
    [][(/\ pc = "wait"
        /\ lastReply' # lastReply
        /\ lastReply'.read
        /\ lastReply'.data # ACK) =>
           (/\ pc' = "wait"
            /\ uploadResult' = uploadResult
            /\ retryCounter' = retryCounter
            /\ dataFile' = dataFile)]_vars

\* C12: the upload is in its sending or waiting step only while WiFi is
\* connected.
C12_ConnectBeforeSend ==
    pc \in {"send", "wait"} => wifi

\* a timestamp taken from a synchronised clock (a degraded cycle's timestamps
\* are 0 + millis()/1000, far below the time at power-on)
IsRealTime(t) == t >= ClockStart

\* the timestamp of the most recent observation of the peer
LastObserved(p) == obsHist[p][Len(obsHist[p])].now

\* C13: when a peer that was tracked in cycles with a real time is observed in
\* a cycle in which getUnixTime returned 0, firstSeen is unchanged, the
\* accumulator does not decrease and grows by no more than the real time
\* elapsed, and the logged contactDuration and closeContactDuration are not
\* below the peer's previous line and not above the real time since its first
\* observation.
C13_DegradedTimeKeepsHistory ==
    LET p == lastEval.peer
        i == lastEval.index
        elapsed == lastEval.realNow - obsHist[p][1].now
    IN  (/\ p # NoDevice
         /\ lastEval.wasTracked
         /\ lastEval.cycle = cycles
         /\ pc = "scan"
         /\ unixTime = 0
         /\ \A k \in 1 .. (Len(obsHist[p]) - 1) : IsRealTime(obsHist[p][k].now)) =>
            /\ firstSeenTimes[i] = lastEval.before.first[i]
            /\ closeContactDurations[i] >= lastEval.before.dur[i]
            /\ closeContactDurations[i] - lastEval.before.dur[i] <= elapsed
            /\ lastEval.data.contactDuration >= lastEval.prev.contactDuration
            /\ lastEval.data.closeContactDuration >= lastEval.prev.closeContactDuration
            /\ lastEval.data.contactDuration <= elapsed
            /\ lastEval.data.closeContactDuration <= elapsed

\* C14: no entry of closeContactDurations ever decreases (the table is not
\* reset in the clock specification).
C14_AccumulatorMonotone ==
    [][\A i \in Indices : closeContactDurations'[i] >= closeContactDurations[i]]_vars

\* C15: the start of an active close-contact session is not later than the
\* timestamp of the peer's most recent observation.
C15_SessionStartNotInFuture ==
    \A p \in EvalPeers :
        (IsTracked(p) /\ SessionStart(p) > 0) => SessionStart(p) <= LastObserved(p)

\* s is an initial segment of t
IsPrefix(s, t) == Len(s) <= Len(t) /\ SubSeq(t, 1, Len(s)) = s

\* C19: a step removes records from the log only in a cold start
\* (bootCount = 0 when the cycle starts) or when uploadData returned true;
\* every other step keeps the records of the log, in order.
C19_LogClearedOnlyTwice ==
    [][\/ IsPrefix(Records(dataFile), Records(dataFile'))
       \/ pc = "boot" /\ bootCount = 0
       \/ pc = "wait" /\ uploadResult' = "ok"]_vars

\* the close contact time of entry i at time now, in whole numbers
TotalCloseContact(i, now) ==
    closeContactDurations[i] +
        (IF lastCloseContactTimes[i] > 0 THEN now - lastCloseContactTimes[i] ELSE 0)

\* C16: at every evaluation isExposureEvent returns true exactly when the
\* accumulator plus the length of the active session reaches
\* EXPOSURE_DURATION_THRESHOLD, and false for a peer that is not tracked.
C16_ExposureThreshold ==
    LET p == lastEval.peer
        i == lastEval.index
    IN  p # NoDevice =>
            isExposureEvent(Table, p, lastEval.now) =
                (i >= 0 /\ TotalCloseContact(i, lastEval.now) >= EXPOSURE_DURATION_THRESHOLD)

\* C17: the closeContactDuration of a logged line is the accumulator plus the
\* length of the ongoing session at the observation time, and in every line
\* the status is EXPOSURE exactly when that field is at least 300.
C17_LoggedCloseContact ==
    /\ (lastEval.peer # NoDevice /\ lastEval.index >= 0) =>
           lastEval.data.closeContactDuration =
               TotalCloseContact(lastEval.index, lastEval.now)
    /\ \A k \in 1 .. Len(logged) :
           (logged[k].exposureStatus = "EXPOSURE") <=>
               (logged[k].closeContactDuration >= EXPOSURE_DURATION_THRESHOLD)

\* uploadData was called in the current wake cycle
UploadAttempted == pc \in {"send", "wait"} \/ uploadResult # "none"

\* C20: after every step, an upload has been attempted in the wake cycle only
\* if bootCount is a positive multiple of UPLOAD_PERIOD, and it has been
\* attempted when such a cycle reaches its end; bootCount
\* grows by exactly 1 at the end of every cycle and changes nowhere else (so
\* two consecutive attempts are UPLOAD_PERIOD cycles apart).
C20_UploadCadence ==
    [][/\ UploadAttempted' => (bootCount' > 0 /\ bootCount' % UPLOAD_PERIOD = 0)
       /\ (pc' = "sleep" /\ bootCount' > 0 /\ bootCount' % UPLOAD_PERIOD = 0) =>
              UploadAttempted'
       /\ (pc = "sleep" /\ pc' = "boot") => bootCount' = bootCount + 1
       /\ pc # "sleep" => bootCount' = bootCount]_vars

\* C20, with the counter taken as the unsigned long it is: an upload is
\* attempted exactly when bootCount is a positive multiple of UPLOAD_PERIOD,
\* and bootCount becomes (bootCount + 1) mod 2^w at the end of every cycle and
\* changes nowhere else.
C20_UploadCadenceModulo ==
    [][/\ UploadAttempted' => (bootCount' > 0 /\ bootCount' % UPLOAD_PERIOD = 0)
       /\ (pc' = "sleep" /\ bootCount' > 0 /\ bootCount' % UPLOAD_PERIOD = 0) =>
              UploadAttempted'
       /\ (pc = "sleep" /\ pc' = "boot") => bootCount' = AddU(bootCount, 1)
       /\ pc # "sleep" => bootCount' = bootCount]_vars

\* the counter has wrapped, the cycle with bootCount = 0 ran without an
\* upload, and the upload of bootCount = UPLOAD_PERIOD is waiting for its reply
C20_Witness ==
    /\ pc = "wait"
    /\ bootCount = UPLOAD_PERIOD
    /\ cycles = UPLOAD_PERIOD + 2

\* C10: a wake cycle that starts with bootCount = 0 reaches the scan with an
\* empty peer table and an empty log.
C10_ColdStartClears ==
    [][(pc = "boot" /\ bootCount = 0 /\ pc' = "scan") =>
          (trackedDeviceCount' = 0 /\ dataFile' = <<>>)]_vars

\* C21: every call of uploadData returns, with success or failure, after at
\* most RETRY_COUNTER waits of at most WaitIterations loop iterations each,
\* whatever datagrams arrive: once uploadData is called the cycle reaches the
\* sleep step, and there uploadData has returned true or false.
C21_UploadTerminates ==
    /\ [](Len(sent) <= RETRY_COUNTER /\ waited <= WaitIterations)
    /\ (pc \in {"send", "wait"}) ~> (pc = "sleep")
    /\ [](pc = "sleep" /\ uploadDue(bootCount) => uploadResult \in {"ok", "failed"})

\* uploadData gave up after RETRY_COUNTER waits, the last of which read a
\* datagram that is not an acknowledgement
C21_Witness ==
    /\ pc = "sleep"
    /\ uploadResult = "failed"
    /\ Len(sent) = RETRY_COUNTER
    /\ lastReply.read

\* C22: setup() halts only in a cycle with bootCount = 0 in which no mount
\* succeeded, after the reformat; a cycle that does not halt reaches the sleep
\* step, and so does every cycle with bootCount > 0, whether or not the mount,
\* the time synchronisation or the upload fails.
C22_HaltOnlyColdBoot ==
    /\ [](pc = "halt" => (bootCount = 0 /\ ~mounted /\ dataFile = <<>>))
    /\ (pc = "boot" /\ bootCount > 0) ~> (pc = "sleep")
    /\ (pc \in {"scan", "send", "wait"}) ~> (pc = "sleep")

\* the sleep step of an upload cycle in which the mount failed for good, the
\* time was not obtained and the upload failed
C22_Witness ==
    /\ pc = "sleep"
    /\ bootCount = UPLOAD_PERIOD
    /\ ~mounted
    /\ unixTime = 0
    /\ uploadResult = "failed"

\* C23: the uploadDuration field of a line is lastUploadDuration as it is when
\* the line is built; lastUploadDuration is 0 as long as the collector has
\* sent no reply, is written only by the step in which uploadData returns
\* true, with the duration of that upload, and every such step writes it.
C23_UploadDurationField ==
    /\ [](netAck = {} => lastUploadDuration = 0)
    /\ [][/\ (lastUploadDuration' # lastUploadDuration) =>
                 (pc = "wait" /\ uploadResult' = "ok")
          /\ (uploadResult # "ok" /\ uploadResult' = "ok") =>
                 (lastUploadDuration' = uploadDuration(retryCounter))
          /\ (nRecords' # nRecords) =>
                 (lastEval'.data.uploadDuration = lastUploadDuration)]_vars

\* a line built in a cycle after a successful upload carries its duration,
\* and the upload of the line's cycle has failed since
C23_Witness ==
    /\ pc = "sleep"
    /\ uploadResult = "failed"
    /\ lastEval.peer # NoDevice
    /\ lastEval.cycle = cycles
    /\ lastEval.data.uploadDuration > 0
    /\ lastUploadDuration = lastEval.data.uploadDuration

\* C24: after a failed upload the records the log held at the failure stay in
\* the log, in order, until an upload succeeds; the next call of uploadData
\* comes UPLOAD_PERIOD cycles after the failed one, and its payload holds
\* those records followed by the records appended since.
C24_FailedUploadRetained ==
    [][/\ lastFailed'.failed =>
              IsPrefix(Records(lastFailed'.log), Records(dataFile'))
       /\ (lastFailed.failed /\ pc = "scan" /\ pc' = "send") =>
              /\ cycles = lastFailed.cycle + UPLOAD_PERIOD
              /\ IsPrefix(Records(lastFailed.log), Records(payload'.content))
              /\ Records(payload'.content) = logged]_vars

\* C25: after every step the identifiers in trackedDevices[0 ..
\* trackedDeviceCount - 1] are addresses of peers and pairwise distinct, and
\* the step has kept every entry at its index and removed none.
C25_TableEntriesStable ==
    [][/\ \A i \in 0 .. trackedDeviceCount' - 1 :
              /\ trackedDevices'[i] # NoDevice
              /\ \A j \in 0 .. trackedDeviceCount' - 1 :
                     (i # j) => (trackedDevices'[i] # trackedDevices'[j])
       /\ trackedDeviceCount' >= trackedDeviceCount
       /\ \A i \in 0 .. trackedDeviceCount - 1 :
              trackedDevices'[i] = trackedDevices[i]]_vars

\* both peers are tracked, and the one inserted first was observed again
\* after the other was inserted
C25_Witness ==
    /\ trackedDeviceCount = NumEvalPeers
    /\ nRecords = MaxObs
    /\ lastEval.peer = trackedDevices[0]
    /\ lastEval.wasTracked

\* C26: for every datagram the collector has received it has sent one reply,
\* with payload ACK, to the sender of the datagram.
C26_OneAckPerDatagram ==
    \A d \in received :
        /\ Len(onMessage(d).replies) = 1
        /\ {a \in netAck : a.for = d} = {[data |-> ACK, for |-> d]}

\* C27: a tracked peer all of whose observations were below
\* CLOSE_CONTACT_RSSI has no session start and no accumulated time, its last
\* line has closeContactDuration 0, isExposureEvent has never returned true
\* for it, and at no time would the derived duration be positive or
\* isExposureEvent return true.
C27_FarPeerNoSession ==
    \A p \in EvalPeers :
        (IsTracked(p) /\ \A k \in 1 .. Len(obsHist[p]) : ~IsClose(obsHist[p][k])) =>
            /\ SessionStart(p) = 0
            /\ Accumulated(p) = 0
            /\ lastData[p].closeContactDuration = 0
            /\ p \notin everExposed
            /\ \A t \in EvalTimes :
                   /\ closeContactDurationNow(Table, p, t) = 0
                   /\ ~isExposureEvent(Table, p, t)

\* a peer observed MaxObs times, never in close range, whose contactDuration
\* has reached EXPOSURE_DURATION_THRESHOLD
C27_Witness ==
    \E p \in EvalPeers :
        /\ IsTracked(p)
        /\ Len(obsHist[p]) = MaxObs
        /\ \A k \in 1 .. Len(obsHist[p]) : ~IsClose(obsHist[p][k])
        /\ lastData[p].contactDuration >= EXPOSURE_DURATION_THRESHOLD
        /\ lastData[p].contactDuration < ULONG_MOD \div 2

\* C28: in every reachable table, for every peer, time and signal strength,
\* updateCloseContact leaves the identifiers, the firstSeen times, the count
\* and the entries of the other peers as they are, and leaves the whole table
\* as it is when the peer is not tracked, when the signal is close and a
\* session is active, and when the signal is far and no session is active.
C28_UpdateOnlyOnTransition ==
    \A p \in EvalPeers, now \in EvalTimes, rssi \in RssiValues :
        LET T2 == updateCloseContact(Table, p, now, rssi)
            i  == findTrackedDevice(Table, p)
        IN  /\ T2.dev = Table.dev
            /\ T2.first = Table.first
            /\ T2.count = Table.count
            /\ \A j \in Indices :
                   (j # i) => (T2.dur[j] = Table.dur[j] /\ T2.last[j] = Table.last[j])
            /\ (i < 0) => (T2 = Table)
            /\ (i >= 0 /\ rssi >= CLOSE_CONTACT_RSSI /\ Table.last[i] > 0) =>
                   (T2 = Table)
            /\ (i >= 0 /\ rssi < CLOSE_CONTACT_RSSI /\ Table.last[i] = 0) =>
                   (T2 = Table)

\* one peer is in a session, another has closed one and is in none
C28_Witness ==
    \E p \in EvalPeers, q \in EvalPeers :
        /\ IsTracked(p) /\ SessionStart(p) > 0
        /\ IsTracked(q) /\ SessionStart(q) = 0 /\ Accumulated(q) > 0

\* C29: while uploadData runs, its payload is the metadata line with the
\* unixTime of the cycle followed by the header and every line stored since
\* the log was last cleared, in order, or by nothing when no line was stored;
\* that is the log as it was when uploadData was called, and every
\* transmission carries it.
C29_PayloadIsLog ==
    pc \in {"send", "wait"} =>
        /\ payload.uploadTimestamp = unixTime
        /\ payload.content = (IF logged = <<>> THEN <<>> ELSE <<HEADER>> \o logged)
        /\ payload.content = uploadStart.log
        /\ \A k \in 1 .. Len(sent) : sent[k] = payload

\* C30: the contactDuration of the line built for a tracked peer is the
\* observation time minus the firstSeen time the table holds for the peer,
\* whenever the observation is not earlier than that time.
C30_ContactDuration ==
    (/\ lastEval.peer # NoDevice
     /\ lastEval.index >= 0
     /\ lastEval.now >= firstSeenTimes[lastEval.index]) =>
        lastEval.data.contactDuration = lastEval.now - firstSeenTimes[lastEval.index]

\* C31: after an observation of a tracked peer is processed, the peer's
\* session start is positive exactly when the observation was in close range.
C31_SessionFlag ==
    (lastEval.peer # NoDevice /\ lastEval.index >= 0) =>
        ((lastCloseContactTimes[lastEval.index] > 0) <=>
            (lastEval.rssi >= CLOSE_CONTACT_RSSI))

\* C32: in the step in which uploadData returns true, a reply of the collector
\* to a payload transmitted by this call of uploadData is in flight (if there
\* is none, the accepted acknowledgement answers an earlier call).
C32_AckAnswersThisCall ==
    [][(uploadResult # "ok" /\ uploadResult' = "ok") =>
          \E a \in netAck : a.for \in Range(sent)]_vars

\* C33: no record is dropped before the collector has it: the line built for
\* the last observation is still in the log, or it is contained in a payload
\* the collector received (a line that is in neither can never be delivered).
C33_NoRecordDropped ==
    lastEval.peer # NoDevice =>
        \/ lastEval.data \in Range(dataFile)
        \/ \E d \in received : lastEval.data \in Range(d.content)

\* C34: every step of an upload attempt, from the call of uploadData to its
\* return and the format after a success, leaves the peer table as it is:
\* the count and every entry's identifier, firstSeen, accumulator and
\* session start.
C34_UploadKeepsTable ==
    [][(pc \in {"send", "wait"} \/ (pc = "scan" /\ pc' = "send")) =>
          /\ Table' = Table
          /\ \A p \in ScanPeers, t \in {unixTime, AddU(unixTime, SCAN_TIME)} :
                 isExposureEvent(Table', p, t) = isExposureEvent(Table, p, t)]_vars

\* uploadData returned true and the log was cleared while a tracked peer is
\* in a close-contact session
C34_Witness ==
    /\ pc = "sleep"
    /\ uploadResult = "ok"
    /\ Len(Records(clearedLog)) >= 1
    /\ dataFile = <<>>
    /\ trackedDeviceCount >= 1
    /\ lastCloseContactTimes[0] > 0

C36_StoredBeforeAck ==
    \A d \in received :
        (onMessage(d).saved /\ \E a \in netAck : a.for = d /\ a.data = ACK) =>
            d \in appended.ok

\* C37: the while-loop and the for-loop implementation of
\* _sendDataWithConfirmation, fed the same channel events, are at the same
\* place (waiting or returned), have returned the same result and have
\* transmitted the same payload the same number of times.
C37_SendersEquivalent ==
    senders.called =>
        /\ senders.byWhile.at = senders.byFor.at
        /\ senders.byWhile.result = senders.byFor.result
        /\ senders.byWhile.sent = senders.byFor.sent

\* both returned true in the second wait, after a reply that is not ACK
C37_Witness ==
    /\ senders.called
    /\ senders.byWhile.at = "returned"
    /\ senders.byWhile.result
    /\ Len(senders.byWhile.sent) = 2
    /\ \E i \in 1 .. Len(senders.events) :
          ~senders.events[i].timeout /\ ~waitForAcknowledgment(senders.events[i].data)

\* C38: in every reachable table, for every peer, time and signal strength,
\* updateCloseContact of group3-wiot-final.ino and updateCloseContact of the
\* consolidated sketch produce the same table.
C38_UpdateFormsEquivalent ==
    \A p \in EvalPeers, now \in EvalTimes, rssi \in RssiValues :
        updateCloseContact(Table, p, now, rssi) =
            updateCloseContactTransition(Table, p, now, rssi)

\* a peer is in its second session, with the time of the first accumulated:
\* both transitions have happened and a close and a far signal would each
\* take a different branch
C38_Witness ==
    \E p \in EvalPeers :
        /\ IsTracked(p)
        /\ SessionStart(p) > 0
        /\ Accumulated(p) > 0
        /\ updateCloseContactTransition(Table, p, clock, -80) # Table

====
